---- MODULE Spec2Model ----
(***************************************************************************)
(* A model of liquid-dsp's infinite impulse response filter object         *)
(* (src/filter/src/iirfilt.c), default (floating point) backend.           *)
(*                                                                         *)
(* Numbers.  Samples and coefficients are exact rationals <<num, den>> in  *)
(* lowest terms with den > 0; rounding of the float type is not modelled.  *)
(* Complex results are records [fin, re, im]; every non-finite float (inf, *)
(* nan) is the one value with fin = FALSE.                                 *)
(*                                                                         *)
(* Memory.  The coefficient and state arrays of the object live in one     *)
(* flat heap, mem, addressed from 1.  malloc places the blocks one after   *)
(* the other in the order the code requests them and may round a block up  *)
(* by 0..MaxSlack elements; the struct fields b, a, v hold the base        *)
(* addresses.  An access q->b[i] reads or writes mem[q.b + i] whatever the *)
(* size that was requested for the block, so an index past the end of a    *)
(* block lands in the block's slack or in the next block.  The arrays of an *)
(* SOS-form object are only ever indexed inside their blocks, so their      *)
(* placement cannot be observed and they are laid out without slack.  The  *)
(* biquad sections are objects of their own (iirfiltsos), held in q.qsos.  *)
(*                                                                         *)
(* Inputs.  Callers pass a leading denominator coefficient that is not     *)
(* zero; the constructors do not check it and the model does not follow a  *)
(* division by zero through the recursion.                                 *)
(***************************************************************************)
EXTENDS Integers, Sequences, FiniteSets, TLC

\* ------------------------------------------------------------------ bounds
\* longest numerator / denominator handed to iirfilt_create
MaxLen == 3
\* most second-order sections handed to iirfilt_create_sos
MaxSos == 2
\* most execute calls on one object
MaxSteps == 3
\* most elements malloc may add to a block
MaxSlack == 1
\* most execute calls on one DC-blocking filter fed a constant input
MaxDcSteps == 5
\* fractional bits of the fixed-point format of the LIQUID_FIXED backend
QFracBits == 2

\* --------------------------------------------------------------- rationals
Abs(n) == IF n < 0 THEN 0 - n ELSE n

RECURSIVE Gcd(_, _)
Gcd(m, n) == IF n = 0 THEN m ELSE Gcd(n, m % n)

\* the rational n/d (d # 0) in lowest terms with a positive denominator
Rat(n, d) ==
    LET g == Gcd(Abs(n), Abs(d))
        s == IF d < 0 THEN 0 - 1 ELSE 1
    IN  <<(s * n) \div g, (s * d) \div g>>

R(n) == <<n, 1>>
RAdd(x, y) == Rat(x[1] * y[2] + y[1] * x[2], x[2] * y[2])
RSub(x, y) == Rat(x[1] * y[2] - y[1] * x[2], x[2] * y[2])
RMul(x, y) == Rat(x[1] * y[1], x[2] * y[2])
\* x / y for y # 0
RDiv(x, y) == Rat(x[1] * y[2], x[2] * y[1])
RNeg(x) == <<0 - x[1], x[2]>>
RLe(x, y) == x[1] * y[2] <= y[1] * x[2]
RGe(x, y) == RLe(y, x)
RIsZero(x) == x[1] = 0

\* the content of memory malloc returns: indeterminate
Garbage == <<0, 0>>

\* ----------------------------------------------------------- complex values
Cx(re, im) == [fin |-> TRUE, re |-> re, im |-> im]
CNaN == [fin |-> FALSE, re |-> R(0), im |-> R(0)]
CZero == Cx(R(0), R(0))
COne == Cx(R(1), R(0))
CAdd(x, y) ==
    IF x.fin /\ y.fin THEN Cx(RAdd(x.re, y.re), RAdd(x.im, y.im)) ELSE CNaN
CMul(x, y) ==
    IF x.fin /\ y.fin
    THEN Cx(RSub(RMul(x.re, y.re), RMul(x.im, y.im)),
            RAdd(RMul(x.re, y.im), RMul(x.im, y.re)))
    ELSE CNaN
\* x / y; a zero divisor gives a non-finite value
CDiv(x, y) ==
    IF x.fin /\ y.fin /\ ~(RIsZero(y.re) /\ RIsZero(y.im))
    THEN LET m == RAdd(RMul(y.re, y.re), RMul(y.im, y.im))
             p == CMul(x, Cx(y.re, RNeg(y.im)))
         IN  Cx(RDiv(p.re, m), RDiv(p.im, m))
    ELSE CNaN

\* ------------------------------------------------------------------ inputs
\* numerator values, leading and other denominator values, input samples
BVals == {R(1), R(0 - 2)}
A0Vals == {R(1), R(2)}
AVals == {R(0 - 1), Rat(1, 2)}
XVals == {R(1), R(0 - 1)}

\* the arrays a caller may hand to iirfilt_create: _a[0] is not zero
NumArrays(len) == [1..len -> BVals]
DenArrays(len) ==
    {s \in [1..len -> A0Vals \cup AVals] :
        \A i \in 1..len : IF i = 1 THEN s[i] \in A0Vals ELSE s[i] \in AVals}

Max(x, y) == IF x > y THEN x ELSE y

\* ------------------------------------------------------------------- state
VARIABLES
    q,      \* the filter object, struct iirfilt_s (type "NONE": no object)
    mem,    \* the heap holding the object's b, a and v arrays
    out,    \* what the last call did and returned
    nexec,  \* execute calls made on the object so far
    twin    \* PairSpec, LifeSpec: a second filter object run beside the first;
            \* DcSpec: the alpha and the constant input of the DC blocker;
            \* FixedSpec: the build's pointer size and the constructor's inputs

vars == <<q, mem, out, nexec, twin>>

\* a field malloc left unset
Indeterminate == 0 - 1

NoFilter == [type |-> "NONE"]

\* the heap blocks of an object: the struct "q", the arrays "b", "a", "v" and
\* "qsos" (index 0), and the section object qsos[i] (index i, from 1)
Block(name) == <<name, 0>>
SectionBlock(i) == <<"qsos[i]", i>>

\* elements i = 0..len-1 of the array at base address p
ReadArray(m, p, len) == [i \in 1..len |-> m[p + i - 1]]

\* ------------------------------------------------------------------- clear
\* biquad section: zero the two delay elements, keep the coefficients
iirfiltsos_clear(s) == [s EXCEPT !.v = <<R(0), R(0)>>]

\* the loop of iirfilt_clear on the flat state buffer
ClearBuffer(qq, m) ==
    [k \in DOMAIN m |-> IF k \in qq.v .. (qq.v + qq.n - 1) THEN R(0) ELSE m[k]]

iirfilt_clear(qq, m) ==
    IF qq.type = "SOS"
    THEN [q |-> [qq EXCEPT !.qsos = [i \in 1..qq.nsos |-> iirfiltsos_clear(qq.qsos[i])]],
          mem |-> m]
    ELSE [q |-> qq, mem |-> ClearBuffer(qq, m)]

\* ------------------------------------------------------------------ create
\* sizes requested for the numerator and the denominator block
NumBlockLen(_nb, _na) == _na
DenBlockLen(_nb, _na) == _nb

\* fprintf(stderr, ...); exit(1) of the input validation: the first statements
\* of the constructor, so nothing was allocated and no input element was read
CreateFail_AfterMalloc(msg) ==
    [ok |-> FALSE, msg |-> msg, allocs |-> 1, reads |-> 0, q |-> NoFilter, mem |-> <<>>]

CreateFail(msg) ==
    [ok |-> FALSE, msg |-> msg, allocs |-> 0, reads |-> 0, q |-> NoFilter, mem |-> <<>>]

\* q->b[i] = _b[i] / a0 for i < nb, then q->a[i] = _a[i] / a0 for i < na
NormalizeInto(m, qq, _b, _a) ==
    LET a0 == _a[1]
        m1 == [k \in DOMAIN m |->
                 IF k \in qq.b .. (qq.b + qq.nb - 1)
                 THEN RDiv(_b[k - qq.b + 1], a0) ELSE m[k]]
    IN  [k \in DOMAIN m1 |->
           IF k \in qq.a .. (qq.a + qq.na - 1)
           THEN RDiv(_a[k - qq.a + 1], a0) ELSE m1[k]]

\* iirfilt_create(_b, _nb, _a, _na); sb and sa are the slack malloc adds to the
\* numerator and the denominator block.  bcap, acap, vcap and blocks are the
\* allocator's record of the object, not struct fields: the sizes requested for
\* the three arrays and the blocks obtained, in the order of the malloc calls
iirfilt_create(_b, _nb, _a, _na, sb, sa) ==
    IF _nb = 0 THEN CreateFail("numerator length cannot be zero")
    ELSE IF _na = 0 THEN CreateFail("denominator length cannot be zero")
    ELSE
      LET nn == Max(_na, _nb)
          bcap == NumBlockLen(_nb, _na)
          acap == DenBlockLen(_nb, _na)
          bB == 1
          aB == bB + bcap + sb
          vB == aB + acap + sa
          qq == [type |-> "NORM", b |-> bB, a |-> aB, v |-> vB,
                 n |-> nn, nb |-> _nb, na |-> _na,
                 nsos |-> Indeterminate, qsos |-> <<>>,
                 bcap |-> bcap, acap |-> acap, vcap |-> nn,
                 blocks |-> <<Block("q"), Block("b"), Block("a"), Block("v")>>]
          m0 == [k \in 1..(vB + nn - 1) |-> Garbage]
          m2 == NormalizeInto(m0, qq, _b, _a)
          c == iirfilt_clear(qq, m2)
      IN  [ok |-> TRUE, msg |-> "", allocs |-> 4, reads |-> _nb + _na + 1,
           q |-> c.q, mem |-> c.mem]

\* ------------------------------------------ fixed-point backend (LIQUID_FIXED)
RECURSIVE Pow2(_)
Pow2(n) == IF n = 0 THEN 1 ELSE 2 * Pow2(n - 1)

\* Q(_div)(x, y), y # 0: the quotient cut to QFracBits fractional bits
QDiv(x, y) ==
    LET n == x[1] * y[2] * Pow2(QFracBits)
        d == x[2] * y[1]
        t == Abs(n) \div Abs(d)
    IN  Rat(IF (n < 0) = (d < 0) THEN t ELSE 0 - t, Pow2(QFracBits))

\* sizeof(_q->v) / sizeof(TI): the elements one pointer is as large as, for the
\* 32-bit sample type on a build with 32-bit and with 64-bit pointers
PointerElems == {1, 2}

\* what the cells of a block hold when malloc returns it
HeapFill == {R(0), R(7)}

\* q->b[i] = Q(_div)(_b[i], a0) for i < nb, then q->b[i] = Q(_div)(_a[i], a0)
\* for i < na: both loops store into q->b
NormalizeInto_Fixed(m, qq, _b, _a) ==
    LET a0 == _a[1]
        m1 == [k \in DOMAIN m |->
                 IF k \in qq.b .. (qq.b + qq.nb - 1)
                 THEN QDiv(_b[k - qq.b + 1], a0) ELSE m[k]]
    IN  [k \in DOMAIN m1 |->
           IF k \in qq.b .. (qq.b + qq.na - 1)
           THEN QDiv(_a[k - qq.b + 1], a0) ELSE m1[k]]

\* memset(_q->v, 0x00, sizeof(_q->v)): pe elements from v[0] on
ClearBuffer_Fixed(qq, m, pe) ==
    [k \in DOMAIN m |-> IF k \in qq.v .. (qq.v + pe - 1) THEN R(0) ELSE m[k]]

iirfilt_clear_fixed(qq, m, pe) ==
    IF qq.type = "SOS"
    THEN [q |-> [qq EXCEPT !.qsos = [i \in 1..qq.nsos |-> iirfiltsos_clear(qq.qsos[i])]],
          mem |-> m]
    ELSE [q |-> qq, mem |-> ClearBuffer_Fixed(qq, m, pe)]

\* iirfilt_create(_b, _nb, _a, _na) of the fixed-point build; pe is the build's
\* pointer size in elements and g what the fresh blocks hold.  The heap is
\* modelled up to the last cell the constructor's memset reaches
iirfilt_create_fixed(_b, _nb, _a, _na, sb, sa, pe, g) ==
    IF _nb = 0 THEN CreateFail("numerator length cannot be zero")
    ELSE IF _na = 0 THEN CreateFail("denominator length cannot be zero")
    ELSE
      LET nn == Max(_na, _nb)
          bcap == NumBlockLen(_nb, _na)
          acap == DenBlockLen(_nb, _na)
          bB == 1
          aB == bB + bcap + sb
          vB == aB + acap + sa
          qq == [type |-> "NORM", b |-> bB, a |-> aB, v |-> vB,
                 n |-> nn, nb |-> _nb, na |-> _na,
                 nsos |-> Indeterminate, qsos |-> <<>>,
                 bcap |-> bcap, acap |-> acap, vcap |-> nn,
                 blocks |-> <<Block("q"), Block("b"), Block("a"), Block("v")>>]
          m0 == [k \in 1..(vB + Max(nn, pe) - 1) |-> g]
          m2 == NormalizeInto_Fixed(m0, qq, _b, _a)
          c == iirfilt_clear_fixed(qq, m2, pe)
      IN  [ok |-> TRUE, msg |-> "", allocs |-> 4, reads |-> _nb + _na + 1,
           q |-> c.q, mem |-> c.mem]

\* -------------------------------------------------------------- DC blocker
\* the values of _alpha a caller may pass: inside and outside (0, 1]
AlphaVals == {R(0), Rat(1, 2), Rat(3, 4), R(1), R(3)}

\* TC b[2] = { 1.0f, -1.0f }
DcNumerator_Sum == <<R(1), R(1)>>

DcNumerator == <<R(1), R(0 - 1)>>

\* a1 = -1.0f + _alpha; TC a[2] = { 1.0f, a1 }
DcDenominator(_alpha) == <<R(1), RAdd(R(0 - 1), _alpha)>>

\* iirfilt_create_dc_blocker(_alpha): create(b, 2, a, 2)
iirfilt_create_dc_blocker(_alpha, sb, sa) ==
    iirfilt_create(DcNumerator, 2, DcDenominator(_alpha), 2, sb, sa)

\* --------------------------------------------------- second-order sections
\* the (b, a) triplets a caller may give for one section: a[0] is not zero
SecNums == {<<R(1), R(0 - 2), R(1)>>, <<R(1), R(1), R(1)>>}
SecDens == {<<R(1), R(0 - 1), Rat(1, 2)>>, <<R(2), Rat(1, 2), R(0 - 1)>>}

\* the flat arrays _B and _A of nsos triplets each
RECURSIVE TripletArrays(_, _)
TripletArrays(S, nsos) ==
    IF nsos = 0 THEN {<<>>}
    ELSE {t \o s : t \in S, s \in TripletArrays(S, nsos - 1)}

\* biquad section object: coefficients normalized by a[0], zero state
iirfiltsos_create(bt, at) ==
    [b |-> [k \in 1..3 |-> RDiv(bt[k], at[1])],
     a |-> [k \in 1..3 |-> RDiv(at[k], at[1])],
     v |-> <<R(0), R(0)>>]

\* biquad section: w = x - a1*v1 - a2*v2; y = b0*w + b1*v1 + b2*v2; v2 = v1; v1 = w
iirfiltsos_execute(s, x) ==
    LET w == RSub(RSub(x, RMul(s.a[2], s.v[1])), RMul(s.a[3], s.v[2]))
        y == RAdd(RAdd(RMul(s.b[1], w), RMul(s.b[2], s.v[1])), RMul(s.b[3], s.v[2]))
    IN  [s |-> [s EXCEPT !.v = <<w, s.v[1]>>], y |-> y]

\* the triplet the construction loop copies out of the array at base p for
\* section i: at[k] = q->a[3*i+k], bt[k] = q->b[3*i+k]     (i counts from 1)
SectionTriplet_First(m, p, i) == [k \in 1..3 |-> m[p + k - 1]]

SectionTriplet(m, p, i) == [k \in 1..3 |-> m[p + 3 * (i - 1) + k - 1]]

\* iirfilt_create_sos(_B, _A, _nsos)
iirfilt_create_sos(_B, _A, _nsos) ==
    IF _nsos = 0
    THEN [ok |-> FALSE, msg |-> "filter must have at least one 2nd-order section",
          allocs |-> 0, q |-> NoFilter, mem |-> <<>>]
    ELSE
      LET bB == 1
          aB == bB + 3 * _nsos
          \* memmove(q->b, _B, ...); memmove(q->a, _A, ...)
          m == [k \in 1..(6 * _nsos) |->
                  IF k < aB THEN _B[k - bB + 1] ELSE _A[k - aB + 1]]
          secs == [i \in 1.._nsos |->
                     iirfiltsos_create(SectionTriplet(m, bB, i), SectionTriplet(m, aB, i))]
      IN  [ok |-> TRUE, msg |-> "", allocs |-> 4 + _nsos,
           q |-> [type |-> "SOS", b |-> bB, a |-> aB, v |-> Indeterminate,
                  n |-> _nsos * 2, nb |-> Indeterminate, na |-> Indeterminate,
                  nsos |-> _nsos, qsos |-> secs,
                  bcap |-> 3 * _nsos, acap |-> 3 * _nsos, vcap |-> 0,
                  blocks |-> <<Block("q"), Block("qsos"), Block("b"), Block("a")>>
                             \o [i \in 1.._nsos |-> SectionBlock(i)]],
           mem |-> m]

\* ---------------------------------------------------------------- PLL filter
\* bandwidth, damping factor and loop gain a caller may pass
WVals == {Rat(0 - 1, 2), R(0), Rat(1, 2), R(1), Rat(3, 2)}
ZetaVals == {Rat(0 - 1, 2), R(0), Rat(1, 2), R(1), Rat(3, 2)}
KVals == {R(0 - 1), R(0), R(1000)}

\* the (b, a) triplets the active-lag design may return
PllDesigns == {[b |-> bt, a |-> at] : bt \in SecNums, at \in SecDens}

\* the input validation of iirfilt_create_pll: "" when the input is accepted
PllInvalid_ZeroGain(_w, _zeta, _K) ==
    IF RLe(_w, R(0)) \/ RGe(_w, R(1)) THEN "bandwidth must be in (0,1)"
    ELSE IF RLe(_zeta, R(0)) \/ RGe(_zeta, R(1)) THEN "damping factor must be in (0,1)"
    ELSE IF ~RGe(_K, R(0)) THEN "loop gain must be greater than zero"
    ELSE ""

PllInvalid(_w, _zeta, _K) ==
    IF RLe(_w, R(0)) \/ RGe(_w, R(1)) THEN "bandwidth must be in (0,1)"
    ELSE IF RLe(_zeta, R(0)) \/ RGe(_zeta, R(1)) THEN "damping factor must be in (0,1)"
    ELSE IF RLe(_K, R(0)) THEN "loop gain must be greater than zero"
    ELSE ""

\* iirfilt_create_pll(_w, _zeta, _K); d is what iirdes_pll_active_lag returns
iirfilt_create_pll(_w, _zeta, _K, d) ==
    IF PllInvalid(_w, _zeta, _K) # ""
    THEN [ok |-> FALSE, msg |-> PllInvalid(_w, _zeta, _K), designs |-> 0,
          allocs |-> 0, q |-> NoFilter, mem |-> <<>>]
    ELSE [designs |-> 1] @@ iirfilt_create_sos(d.b, d.a, 1)

\* ----------------------------------------------------------------- execute
\* advance buffer: for (i = n-1; i > 0; i--) v[i] = v[i-1]
RECURSIVE AdvanceBuffer_Ascending(_, _, _)
AdvanceBuffer_Ascending(m, qq, i) ==
    IF i <= 0 THEN m
    ELSE LET m1 == AdvanceBuffer_Ascending(m, qq, i - 1)
         IN  [m1 EXCEPT ![qq.v + i] = m1[qq.v + i - 1]]

RECURSIVE AdvanceBuffer(_, _, _)
AdvanceBuffer(m, qq, i) ==
    IF i <= 0 THEN m
    ELSE AdvanceBuffer([m EXCEPT ![qq.v + i] = m[qq.v + i - 1]], qq, i - 1)

\* v0 = _x; for (i = 1; i < na; i++) v0 -= a[i] * v[i]     (i counts from 1)
RECURSIVE FeedBack(_, _, _, _)
FeedBack(m, qq, v0, i) ==
    IF i >= qq.na THEN v0
    ELSE FeedBack(m, qq, RSub(v0, RMul(m[qq.a + i], m[qq.v + i])), i + 1)

\* y0 = 0; for (i = 0; i < nb; i++) y0 += b[i] * v[i]
RECURSIVE FeedForward(_, _, _, _)
FeedForward(m, qq, y0, i) ==
    IF i >= qq.nb THEN y0
    ELSE FeedForward(m, qq, RAdd(y0, RMul(m[qq.b + i], m[qq.v + i])), i + 1)

iirfilt_execute_norm(qq, m, _x) ==
    LET m1 == AdvanceBuffer(m, qq, qq.n - 1)
        v0 == FeedBack(m1, qq, _x, 1)
        m2 == [m1 EXCEPT ![qq.v] = v0]
    IN  [q |-> qq, mem |-> m2, y |-> FeedForward(m2, qq, R(0), 0), log |-> <<>>]

\* the input the loop of iirfilt_execute_sos hands to the next section: t0 = t1
NextSectionInput_Original(_x, y) == _x

NextSectionInput(_x, y) == y

\* for (i = 0; i < nsos; i++) { execute(qsos[i], t0, &t1); t0 = t1; }
\* log lists, per section run, its index, its input and its output
RECURSIVE SosLoop(_, _, _, _, _, _)
SosLoop(secs, _x, t0, t1, i, log) ==
    IF i > Len(secs) THEN [secs |-> secs, y |-> t1, log |-> log]
    ELSE LET r == iirfiltsos_execute(secs[i], t0)
         IN  SosLoop([secs EXCEPT ![i] = r.s], _x, NextSectionInput(_x, r.y), r.y,
                     i + 1, Append(log, [sec |-> i, x |-> t0, y |-> r.y]))

iirfilt_execute_sos(qq, m, _x) ==
    LET r == SosLoop(qq.qsos, _x, _x, R(0), 1, <<>>)
    IN  [q |-> [qq EXCEPT !.qsos = r.secs], mem |-> m, y |-> r.y, log |-> r.log]

iirfilt_execute(qq, m, _x) ==
    IF qq.type = "NORM" THEN iirfilt_execute_norm(qq, m, _x)
    ELSE iirfilt_execute_sos(qq, m, _x)

iirfilt_get_length(qq) == qq.n

\* ------------------------------------------------------- frequency response
\* the frequencies asked for, in quarters of the sample rate: fc = k/4
FreqQuarters == {0, 1}

\* cexpf(_Complex_I*2*M_PI*_fc*i) at fc = k/4: the unit j^(k*i)
CExp(k, i) ==
    LET p == (k * i) % 4
    IN  IF p = 0 THEN Cx(R(1), R(0))
        ELSE IF p = 1 THEN Cx(R(0), R(1))
        ELSE IF p = 2 THEN Cx(R(0 - 1), R(0))
        ELSE Cx(R(0), R(0 - 1))

\* sum over i < len of c[i] * cexpf(j 2 pi fc i), c the array at base p
RECURSIVE Dft(_, _, _, _, _)
Dft(m, p, len, k, i) ==
    IF i >= len THEN CZero
    ELSE CAdd(CMul(Cx(m[p + i], R(0)), CExp(k, i)), Dft(m, p, len, k, i + 1))

iirfilt_freqresponse_tf(qq, m, k) ==
    CDiv(Dft(m, qq.b, qq.nb, k, 0), Dft(m, qq.a, qq.na, k, 0))

\* the arrays section i's response is computed from: b = &q->b[3*i], a = &q->b[3*i]
SosNumBase(qq, i) == qq.b + 3 * i
SosDenBase(qq, i) == qq.b + 3 * i

\* H = 1; for (i = 0; i < nsos; i++) H *= Hb / Ha
RECURSIVE SosResponse(_, _, _, _, _)
SosResponse(qq, m, k, H, i) ==
    IF i >= qq.nsos THEN H
    ELSE SosResponse(qq, m, k,
                     CMul(H, CDiv(Dft(m, SosNumBase(qq, i), 3, k, 0),
                                  Dft(m, SosDenBase(qq, i), 3, k, 0))),
                     i + 1)

iirfilt_freqresponse_sos(qq, m, k) == SosResponse(qq, m, k, COne, 0)

iirfilt_freqresponse(qq, m, k) ==
    IF qq.type = "NORM" THEN iirfilt_freqresponse_tf(qq, m, k)
    ELSE iirfilt_freqresponse_sos(qq, m, k)

\* -------------------------------------------------------------- group delay
\* iir_group_delay(b, nb, a, na, fc): a function of its arguments alone
iir_group_delay(b, a, k) == [fn |-> "iir_group_delay", b |-> b, a |-> a, fc |-> k]

\* biquad section: the group delay of its 3-tap numerator and denominator
iirfiltsos_groupdelay(s, k) == iir_group_delay(s.b, s.a, k)

\* normal form: the result of iir_group_delay on copies of the coefficients;
\* SOS form: the sum over the sections of (section group delay - 2), kept as
\* the list of terms and the offset
iirfilt_groupdelay(qq, m, k) ==
    IF qq.type = "NORM"
    THEN [terms |-> <<iir_group_delay(ReadArray(m, qq.b, qq.nb),
                                      ReadArray(m, qq.a, qq.na), k)>>,
          offset |-> 0]
    ELSE [terms |-> [i \in 1..qq.nsos |-> iirfiltsos_groupdelay(qq.qsos[i], k)],
          offset |-> 0 - 2 * qq.nsos]

\* -------------------------------------------------------- print and destroy
iirfiltsos_print(s) == <<s.b, s.a>>

\* what iirfilt_print writes: the form, then the sections or the b and a rows
iirfilt_print(qq, m) ==
    IF qq.type = "SOS"
    THEN [form |-> "sos", rows |-> [i \in 1..qq.nsos |-> iirfiltsos_print(qq.qsos[i])]]
    ELSE [form |-> "normal",
          rows |-> <<ReadArray(m, qq.b, qq.nb), ReadArray(m, qq.a, qq.na)>>]

\* the blocks iirfilt_destroy frees, in order
iirfilt_destroy_FreeBuffer(qq) ==
    <<Block("b"), Block("a")>>
    \o (IF qq.type = "SOS"
        THEN [i \in 1..qq.nsos |-> SectionBlock(i)] \o <<Block("qsos")>>
        ELSE <<>>)
    \o <<Block("v"), Block("q")>>

iirfilt_destroy(qq) ==
    <<Block("b"), Block("a")>>
    \o (IF qq.type = "SOS"
        THEN [i \in 1..qq.nsos |-> SectionBlock(i)] \o <<Block("qsos")>>
        ELSE <<Block("v")>>)
    \o <<Block("q")>>

\* ---------------------------------------------------------- array accesses
\* how many leading elements of q->b, q->a and q->v a call on a normal-form
\* object reads or writes, from the bounds of the loops that index them:
\* create and print, freqresponse_tf, groupdelay run i < nb over b and i < na
\* over a; execute_norm runs 0 < i < n over v, 1 <= i < na over a and v, and
\* i < nb over b and v; create (through clear) and clear run i < n over v
AccessExtent(qq, op) ==
    [b |-> IF op \in {"create", "execute", "freqresponse", "groupdelay", "print"}
           THEN qq.nb ELSE 0,
     a |-> IF op \in {"create", "freqresponse", "groupdelay", "print"} THEN qq.na
           ELSE IF op = "execute" /\ qq.na > 1 THEN qq.na
           ELSE 0,
     v |-> IF op \in {"create", "clear", "execute"} THEN qq.n ELSE 0]

\* ----------------------------------------------------------------- actions
\* exit(1) ends the process: nothing runs after a fatal error
Running == out.ok

Create ==
    /\ Running
    /\ q.type = "NONE"
    /\ \E _nb \in 0..MaxLen, _na \in 0..MaxLen, sb \in 0..MaxSlack, sa \in 0..MaxSlack :
         \E _b \in NumArrays(_nb), _a \in DenArrays(_na) :
           LET r == iirfilt_create(_b, _nb, _a, _na, sb, sa)
           IN  /\ q' = r.q
               /\ mem' = r.mem
               /\ out' = [op |-> "create", ok |-> r.ok, msg |-> r.msg,
                          allocs |-> r.allocs, reads |-> r.reads,
                          b |-> _b, nb |-> _nb, a |-> _a, na |-> _na]
               /\ nexec' = 0
               /\ UNCHANGED twin

CreateSos ==
    /\ Running
    /\ q.type = "NONE"
    /\ \E _nsos \in 0..MaxSos :
         \E _B \in TripletArrays(SecNums, _nsos), _A \in TripletArrays(SecDens, _nsos) :
           LET r == iirfilt_create_sos(_B, _A, _nsos)
           IN  /\ q' = r.q
               /\ mem' = r.mem
               /\ out' = [op |-> "create_sos", ok |-> r.ok, msg |-> r.msg,
                          allocs |-> r.allocs, B |-> _B, A |-> _A, nsos |-> _nsos]
               /\ nexec' = 0
               /\ UNCHANGED twin

CreatePll ==
    /\ Running
    /\ q.type = "NONE"
    /\ \E _w \in WVals, _zeta \in ZetaVals, _K \in KVals, d \in PllDesigns :
           LET r == iirfilt_create_pll(_w, _zeta, _K, d)
           IN  /\ q' = r.q
               /\ mem' = r.mem
               /\ out' = [op |-> "create_pll", ok |-> r.ok, msg |-> r.msg,
                          allocs |-> r.allocs, designs |-> r.designs,
                          w |-> _w, zeta |-> _zeta, K |-> _K,
                          d |-> IF r.designs = 0 THEN <<>> ELSE d]
               /\ nexec' = 0
               /\ UNCHANGED twin

Clear ==
    /\ Running
    /\ q.type # "NONE"
    /\ LET r == iirfilt_clear(q, mem)
       IN  /\ q' = r.q
           /\ mem' = r.mem
    /\ out' = [op |-> "clear", ok |-> TRUE]
    /\ UNCHANGED <<nexec, twin>>

Execute ==
    /\ Running
    /\ q.type # "NONE"
    /\ nexec < MaxSteps
    /\ \E _x \in XVals :
         LET r == iirfilt_execute(q, mem, _x)
         IN  /\ q' = r.q
             /\ mem' = r.mem
             /\ out' = [op |-> "execute", ok |-> TRUE, x |-> _x, y |-> r.y, log |-> r.log]
    /\ nexec' = nexec + 1
    /\ UNCHANGED twin

GetLength ==
    /\ Running
    /\ q.type # "NONE"
    /\ out' = [op |-> "get_length", ok |-> TRUE, len |-> iirfilt_get_length(q)]
    /\ UNCHANGED <<q, mem, nexec, twin>>

FreqResponse ==
    /\ Running
    /\ q.type # "NONE"
    /\ \E k \in FreqQuarters :
         out' = [op |-> "freqresponse", ok |-> TRUE, fc |-> k,
                 H |-> iirfilt_freqresponse(q, mem, k)]
    /\ UNCHANGED <<q, mem, nexec, twin>>

GroupDelay ==
    /\ Running
    /\ q.type # "NONE"
    /\ \E k \in FreqQuarters :
         out' = [op |-> "groupdelay", ok |-> TRUE, fc |-> k,
                 delay |-> iirfilt_groupdelay(q, mem, k)]
    /\ UNCHANGED <<q, mem, nexec, twin>>

PrintCall ==
    /\ Running
    /\ q.type # "NONE"
    /\ out' = [op |-> "print", ok |-> TRUE, text |-> iirfilt_print(q, mem)]
    /\ UNCHANGED <<q, mem, nexec, twin>>

Destroy ==
    /\ Running
    /\ q.type # "NONE"
    /\ q' = NoFilter
    /\ mem' = <<>>
    /\ out' = [op |-> "destroy", ok |-> TRUE, freed |-> iirfilt_destroy(q)]
    /\ nexec' = 0
    /\ UNCHANGED twin

Init ==
    /\ q = NoFilter
    /\ mem = <<>>
    /\ out = [op |-> "none", ok |-> TRUE]
    /\ nexec = 0
    /\ twin = NoFilter

Next ==
    \/ Create
    \/ CreateSos
    \/ CreatePll
    \/ Clear
    \/ Execute
    \/ GetLength
    \/ FreqResponse
    \/ GroupDelay
    \/ PrintCall
    \/ Destroy

Spec == Init /\ [][Next]_vars

\* construction and destruction alone
NextConstruct ==
    \/ Create
    \/ CreateSos
    \/ CreatePll
    \/ GetLength
    \/ Destroy

SpecConstruct == Init /\ [][NextConstruct]_vars

\* the life of a second-order-sections object
NextSos ==
    \/ CreateSos
    \/ CreatePll
    \/ Clear
    \/ Execute
    \/ GetLength
    \/ FreqResponse
    \/ GroupDelay
    \/ PrintCall
    \/ Destroy

SpecSos == Init /\ [][NextSos]_vars

\* a normal-form object create(b, 3, a, 3) and the single-section SOS-form
\* object create_sos(b, a, 1), a[0] = 1, given the same calls
PairInit ==
    \E _b \in NumArrays(3), _a \in {s \in DenArrays(3) : s[1] = R(1)},
       sb \in 0..MaxSlack, sa \in 0..MaxSlack :
        LET r == iirfilt_create(_b, 3, _a, 3, sb, sa)
            t == iirfilt_create_sos(_b, _a, 1)
        IN  /\ q = r.q
            /\ mem = r.mem
            /\ twin = [q |-> t.q, mem |-> t.mem, y |-> R(0)]
            /\ out = [op |-> "create", ok |-> TRUE, msg |-> "",
                      allocs |-> r.allocs, reads |-> r.reads,
                      b |-> _b, nb |-> 3, a |-> _a, na |-> 3]
            /\ nexec = 0

PairExecute ==
    /\ nexec < MaxSteps
    /\ \E _x \in XVals :
         LET r == iirfilt_execute(q, mem, _x)
             t == iirfilt_execute(twin.q, twin.mem, _x)
         IN  /\ q' = r.q
             /\ mem' = r.mem
             /\ twin' = [q |-> t.q, mem |-> t.mem, y |-> t.y]
             /\ out' = [op |-> "execute", ok |-> TRUE, x |-> _x, y |-> r.y, log |-> t.log]
    /\ nexec' = nexec + 1

PairClear ==
    /\ LET r == iirfilt_clear(q, mem)
           t == iirfilt_clear(twin.q, twin.mem)
       IN  /\ q' = r.q
           /\ mem' = r.mem
           /\ twin' = [twin EXCEPT !.q = t.q, !.mem = t.mem]
    /\ out' = [op |-> "clear", ok |-> TRUE]
    /\ UNCHANGED nexec

PairNext ==
    \/ PairExecute
    \/ PairClear

PairSpec == PairInit /\ [][PairNext]_vars

\* a DC-blocking filter fed the constant input twin.c from its cleared state
DcInit ==
    \E _alpha \in AlphaVals, c \in XVals, sb \in 0..MaxSlack, sa \in 0..MaxSlack :
        LET r == iirfilt_create_dc_blocker(_alpha, sb, sa)
        IN  /\ q = r.q
            /\ mem = r.mem
            /\ twin = [alpha |-> _alpha, c |-> c]
            /\ out = [op |-> "create_dc_blocker", ok |-> TRUE, msg |-> "",
                      allocs |-> r.allocs, reads |-> r.reads]
            /\ nexec = 0

DcExecute ==
    /\ nexec < MaxDcSteps
    /\ LET r == iirfilt_execute(q, mem, twin.c)
       IN  /\ q' = r.q
           /\ mem' = r.mem
           /\ out' = [op |-> "execute", ok |-> TRUE, x |-> twin.c, y |-> r.y, log |-> r.log]
    /\ nexec' = nexec + 1
    /\ UNCHANGED twin

DcNext ==
    \/ DcExecute

\* the steps that count one more execute call: under [][DcNext]_vars these are
\* the DcExecute steps, and DcExecute is enabled exactly when DcFeed is
DcFeed == nexec < MaxDcSteps /\ nexec' = nexec + 1

\* the caller keeps feeding samples
DcSpec == DcInit /\ [][DcNext]_vars /\ WF_nexec(DcFeed)

\* the life of one object, run twice: q and twin.q are built by the same
\* constructor call and given the same calls; the fields create_sos leaves unset
\* hold whatever malloc returned, a different value in each of the two runs
UnsetFields ==
    <<[v |-> 1, nb |-> 0, na |-> 0], [v |-> 2, nb |-> 3, na |-> 3], [v |-> 4, nb |-> 1, na |-> 2]>>

WithUnset(qq, u) == [qq EXCEPT !.v = u.v, !.nb = u.nb, !.na = u.na]

\* the numerator triplets of the SOS-form objects of LifeSpec
LifeSecNums == {<<R(1), R(0 - 2), R(1)>>}

\* coefficient arrays of the normal-form objects of LifeSpec
LifeNum(len) == [i \in 1..len |-> R(1)]
LifeDen(len) == [i \in 1..len |-> IF i = 1 THEN R(2) ELSE R(0 - 1)]

LifeInit ==
    /\ q = NoFilter
    /\ mem = <<>>
    /\ out = [op |-> "none", ok |-> TRUE, res |-> <<>>]
    /\ nexec = 0
    /\ twin = [q |-> NoFilter, mem |-> <<>>, res |-> <<>>]

LifeCreate ==
    /\ q.type = "NONE"
    /\ \E _nb \in 1..MaxLen, _na \in 1..MaxLen, sb \in 0..MaxSlack, sa \in 0..MaxSlack :
         LET r == iirfilt_create(LifeNum(_nb), _nb, LifeDen(_na), _na, sb, sa)
         IN  /\ q' = r.q
             /\ mem' = r.mem
             /\ twin' = [q |-> r.q, mem |-> r.mem, res |-> <<>>]
    /\ out' = [op |-> "create", ok |-> TRUE, res |-> <<>>]
    /\ nexec' = 0

LifeCreateSos ==
    /\ q.type = "NONE"
    /\ \E _nsos \in 1..MaxSos, k \in DOMAIN UnsetFields :
         \E _B \in TripletArrays(LifeSecNums, _nsos), _A \in TripletArrays(SecDens, _nsos) :
           LET r == iirfilt_create_sos(_B, _A, _nsos)
               u == UnsetFields[k]
               w == UnsetFields[(k % Len(UnsetFields)) + 1]
           IN  /\ q' = WithUnset(r.q, u)
               /\ mem' = r.mem
               /\ twin' = [q |-> WithUnset(r.q, w), mem |-> r.mem, res |-> <<>>]
    /\ out' = [op |-> "create_sos", ok |-> TRUE, res |-> <<>>]
    /\ nexec' = 0

LifeClear ==
    /\ q.type # "NONE"
    /\ LET r == iirfilt_clear(q, mem)
           t == iirfilt_clear(twin.q, twin.mem)
       IN  /\ q' = r.q
           /\ mem' = r.mem
           /\ twin' = [q |-> t.q, mem |-> t.mem, res |-> <<>>]
    /\ out' = [op |-> "clear", ok |-> TRUE, res |-> <<>>]
    /\ UNCHANGED nexec

LifeExecute ==
    /\ q.type # "NONE"
    /\ nexec < MaxSteps
    /\ \E _x \in XVals :
         LET r == iirfilt_execute(q, mem, _x)
             t == iirfilt_execute(twin.q, twin.mem, _x)
         IN  /\ q' = r.q
             /\ mem' = r.mem
             /\ twin' = [q |-> t.q, mem |-> t.mem, res |-> t.y]
             /\ out' = [op |-> "execute", ok |-> TRUE, res |-> r.y]
    /\ nexec' = nexec + 1

LifeFreqResponse ==
    /\ q.type # "NONE"
    /\ \E k \in FreqQuarters :
         /\ out' = [op |-> "freqresponse", ok |-> TRUE, res |-> iirfilt_freqresponse(q, mem, k)]
         /\ twin' = [twin EXCEPT !.res = iirfilt_freqresponse(twin.q, twin.mem, k)]
    /\ UNCHANGED <<q, mem, nexec>>

LifeGroupDelay ==
    /\ q.type # "NONE"
    /\ \E k \in FreqQuarters :
         /\ out' = [op |-> "groupdelay", ok |-> TRUE, res |-> iirfilt_groupdelay(q, mem, k)]
         /\ twin' = [twin EXCEPT !.res = iirfilt_groupdelay(twin.q, twin.mem, k)]
    /\ UNCHANGED <<q, mem, nexec>>

LifePrint ==
    /\ q.type # "NONE"
    /\ out' = [op |-> "print", ok |-> TRUE, res |-> iirfilt_print(q, mem)]
    /\ twin' = [twin EXCEPT !.res = iirfilt_print(twin.q, twin.mem)]
    /\ UNCHANGED <<q, mem, nexec>>

LifeDestroy ==
    /\ q.type # "NONE"
    /\ q' = NoFilter
    /\ mem' = <<>>
    /\ out' = [op |-> "destroy", ok |-> TRUE, res |-> iirfilt_destroy(q)]
    /\ twin' = [q |-> NoFilter, mem |-> <<>>, res |-> iirfilt_destroy(twin.q)]
    /\ nexec' = 0

LifeNext ==
    \/ LifeCreate
    \/ LifeCreateSos
    \/ LifeClear
    \/ LifeExecute
    \/ LifeFreqResponse
    \/ LifeGroupDelay
    \/ LifePrint
    \/ LifeDestroy

LifeSpec == LifeInit /\ [][LifeNext]_vars

\* the normal-form object of the fixed-point build
FixedInit ==
    /\ q = NoFilter
    /\ mem = <<>>
    /\ out = [op |-> "none", ok |-> TRUE]
    /\ nexec = 0
    /\ twin \in [pe : PointerElems, b : {<<>>}, a : {<<>>}]

FixedCreate ==
    /\ Running
    /\ q.type = "NONE"
    /\ \E _nb \in 0..MaxLen, _na \in 0..MaxLen, sb \in 0..MaxSlack, sa \in 0..MaxSlack,
          g \in HeapFill :
         \E _b \in NumArrays(_nb), _a \in DenArrays(_na) :
           LET r == iirfilt_create_fixed(_b, _nb, _a, _na, sb, sa, twin.pe, g)
           IN  /\ q' = r.q
               /\ mem' = r.mem
               /\ out' = [op |-> "create", ok |-> r.ok, msg |-> r.msg,
                          allocs |-> r.allocs, reads |-> r.reads]
               /\ twin' = [twin EXCEPT !.b = _b, !.a = _a]
    /\ UNCHANGED nexec

FixedClear ==
    /\ Running
    /\ q.type # "NONE"
    /\ LET r == iirfilt_clear_fixed(q, mem, twin.pe)
       IN  /\ q' = r.q
           /\ mem' = r.mem
    /\ out' = [op |-> "clear", ok |-> TRUE]
    /\ UNCHANGED <<nexec, twin>>

FixedDestroy ==
    /\ Running
    /\ q.type # "NONE"
    /\ q' = NoFilter
    /\ mem' = <<>>
    /\ out' = [op |-> "destroy", ok |-> TRUE, freed |-> iirfilt_destroy(q)]
    /\ twin' = [twin EXCEPT !.b = <<>>, !.a = <<>>]
    /\ UNCHANGED nexec

FixedNext ==
    \/ FixedCreate
    \/ FixedClear
    \/ FixedDestroy

FixedSpec == FixedInit /\ [][FixedNext]_vars

\* ------------------------------------------------------------------ claims
\* the arrays of the object as the program reads them
NumOf(qq, m) == ReadArray(m, qq.b, qq.nb)
DenOf(qq, m) == ReadArray(m, qq.a, qq.na)
BufOf(qq, m) == ReadArray(m, qq.v, qq.n)

\* C1: after create(b, nb, a, na) with nb, na >= 1 and a[0] # 0 the object
\* stores a[0] = 1, b[i] = b_in[i]/a_in[0] for i < nb, a[i] = a_in[i]/a_in[0]
\* for i < na, n = max(nb, na), and a state buffer of n zeros.
C1_CreateNormalizes ==
    (out.op = "create" /\ out.ok) =>
        /\ q.type = "NORM"
        /\ q.n = Max(out.nb, out.na)
        /\ q.vcap = q.n
        /\ DenOf(q, mem)[1] = R(1)
        /\ \A i \in 1..out.nb : RMul(NumOf(q, mem)[i], out.a[1]) = out.b[i]
        /\ \A i \in 1..out.na : RMul(DenOf(q, mem)[i], out.a[1]) = out.a[i]
        /\ \A i \in 1..q.n : BufOf(q, mem)[i] = R(0)

\* C1 holds of every call with nb = na
C1_EqualLengths ==
    (out.op = "create" /\ out.ok /\ out.nb = out.na) => C1_CreateNormalizes

\* C2: create ends in the fatal error, with no object, nothing allocated and
\* no element of b or a read, whenever nb = 0 or na = 0; with nb >= 1 and
\* na >= 1 it never ends in the error.
C2_CreateRejectsZeroLength ==
    out.op = "create" =>
        /\ (out.nb = 0 \/ out.na = 0) =>
              (~out.ok /\ q.type = "NONE" /\ out.allocs = 0 /\ out.reads = 0)
        /\ (out.nb >= 1 /\ out.na >= 1) => out.ok

C2_Witness ==
    /\ out.op = "create"
    /\ out.nb >= 1
    /\ out.na = 0
    /\ ~out.ok
    /\ q.type = "NONE"

\* sum over i in lo..hi of c[i] * v[i]
RECURSIVE DotRange(_, _, _, _)
DotRange(c, v, lo, hi) ==
    IF lo > hi THEN R(0) ELSE RAdd(RMul(c[lo], v[lo]), DotRange(c, v, lo + 1, hi))

\* what C3 says one execute(x) does to a normal-form object: b, a, v before the
\* call, w the state buffer after it, y the value returned
NormStep(b, a, v, w, nn, _x, y) ==
    /\ \A i \in 2..nn : w[i] = v[i - 1]
    /\ w[1] = RSub(_x, DotRange(a, w, 2, Len(a)))
    /\ y = DotRange(b, w, 1, Len(b))

\* C3: execute(x) on a normal-form object shifts the state (new v[i] = old
\* v[i-1], i in 1..n-1), sets v[0] = x - sum_{i=1..na-1} a[i]*v[i] on the shifted
\* values and returns y = sum_{i=0..nb-1} b[i]*v[i], for nb < na, nb = na and
\* nb > na alike.
C3_ExecuteNormStep ==
    [][(out'.op = "execute" /\ q.type = "NORM") =>
          NormStep(NumOf(q, mem), DenOf(q, mem), BufOf(q, mem),
                   BufOf(q', mem'), q.n, out'.x, out'.y)]_vars

\* C3 holds of every object built with nb = na
C3_EqualLengths ==
    [][(out'.op = "execute" /\ q.type = "NORM" /\ q.nb = q.na) =>
          NormStep(NumOf(q, mem), DenOf(q, mem), BufOf(q, mem),
                   BufOf(q', mem'), q.n, out'.x, out'.y)]_vars

\* C4: execute(x) on an SOS-form object runs every section once, in the order
\* 0..nsos-1; section 0 receives x, section i+1 receives the output of
\* section i, and the value returned is the output of section nsos-1.
C4_SosChain ==
    [][(out'.op = "execute" /\ q.type = "SOS") =>
          LET log == out'.log
          IN  /\ Len(log) = q.nsos
              /\ \A i \in 1..q.nsos :
                    /\ log[i].sec = i
                    /\ log[i].x = (IF i = 1 THEN out'.x ELSE log[i - 1].y)
                    /\ iirfiltsos_execute(q.qsos[i], log[i].x)
                         = [s |-> q'.qsos[i], y |-> log[i].y]
              /\ out'.y = log[q.nsos].y]_vars

C4_Witness ==
    /\ out.op = "execute"
    /\ q.type = "SOS"
    /\ q.nsos = 2
    /\ nexec = 2
    /\ out.log[2].x = out.log[1].y
    /\ out.log[1].y # out.x
    /\ out.y # out.log[1].y

\* the coefficients and the state of the object as the program reads them
CoefOf(qq, m) ==
    IF qq.type = "NORM"
    THEN [b |-> NumOf(qq, m), a |-> DenOf(qq, m)]
    ELSE [b |-> ReadArray(m, qq.b, 3 * qq.nsos), a |-> ReadArray(m, qq.a, 3 * qq.nsos),
          secs |-> [i \in 1..qq.nsos |-> [b |-> qq.qsos[i].b, a |-> qq.qsos[i].a]]]
StateOf(qq, m) ==
    IF qq.type = "NORM" THEN BufOf(qq, m)
    ELSE [i \in 1..qq.nsos |-> qq.qsos[i].v]
ZeroState(qq) ==
    IF qq.type = "NORM" THEN [i \in 1..qq.n |-> R(0)]
    ELSE [i \in 1..qq.nsos |-> <<R(0), R(0)>>]
ShapeOf(qq) ==
    IF qq.type = "NORM" THEN <<qq.type, qq.n, qq.nb, qq.na>>
    ELSE <<qq.type, qq.n, qq.nsos>>

\* C5: clear() after any sequence of execute calls leaves the coefficients
\* unchanged and zeroes the whole state, which is the state of a freshly
\* constructed filter with the same coefficients (so the later outputs are
\* those of the fresh filter); a second clear() changes nothing more.
C5_ClearResets ==
    [][out'.op = "clear" =>
          /\ CoefOf(q', mem') = CoefOf(q, mem)
          /\ ShapeOf(q') = ShapeOf(q)
          /\ StateOf(q', mem') = ZeroState(q)
          /\ iirfilt_clear(q', mem') = [q |-> q', mem |-> mem']]_vars

\* C5 holds of every SOS-form object and every normal-form one with nb = na
C5_EqualLengths ==
    [][(out'.op = "clear" /\ (q.type = "NORM" => q.nb = q.na)) =>
          /\ CoefOf(q', mem') = CoefOf(q, mem)
          /\ ShapeOf(q') = ShapeOf(q)
          /\ StateOf(q', mem') = ZeroState(q)
          /\ iirfilt_clear(q', mem') = [q |-> q', mem |-> mem']]_vars

\* the product over the sections of Hb_i(fc) / Ha_i(fc), Hb_i over b[3i..3i+2]
\* and Ha_i over a[3i..3i+2]
RECURSIVE SectionsProduct(_, _, _, _)
SectionsProduct(qq, m, k, i) ==
    IF i >= qq.nsos THEN COne
    ELSE CMul(CDiv(Dft(m, qq.b + 3 * i, 3, k, 0), Dft(m, qq.a + 3 * i, 3, k, 0)),
              SectionsProduct(qq, m, k, i + 1))

\* C6: frequency_response(fc) of an SOS-form object is the product over the
\* sections of Hb_i(fc)/Ha_i(fc); at fc = 0 that is the product of
\* (b0+b1+b2)/(a0+a1+a2).
C6_SosResponse ==
    (out.op = "freqresponse" /\ q.type = "SOS") =>
        out.H = SectionsProduct(q, mem, out.fc, 0)

\* C7: create_pll ends in the fatal error, without calling the active-lag
\* design and without an object, exactly when bandwidth <= 0, bandwidth >= 1,
\* damping <= 0, damping >= 1 or loop_gain <= 0; otherwise it returns an
\* SOS-form object of one section and length 2.
C7_PllValidation ==
    out.op = "create_pll" =>
        LET bad == \/ out.w[1] <= 0
                   \/ out.w[1] >= out.w[2]
                   \/ out.zeta[1] <= 0
                   \/ out.zeta[1] >= out.zeta[2]
                   \/ out.K[1] <= 0
        IN  /\ bad <=> ~out.ok
            /\ ~out.ok => (out.designs = 0 /\ out.allocs = 0 /\ q.type = "NONE")
            /\ out.ok => /\ out.designs = 1
                         /\ q.type = "SOS"
                         /\ q.nsos = 1
                         /\ Len(q.qsos) = 1
                         /\ iirfilt_get_length(q) = 2

C7_Witness ==
    /\ out.op = "create_pll"
    /\ out.ok
    /\ out.w = Rat(1, 2)
    /\ out.K = R(1000)
    /\ q.type = "SOS"
    /\ q.nsos = 1

\* C8: create_sos ends in the fatal error when nsos = 0; for nsos >= 1 the
\* object is of SOS form, holds copies of the 3*nsos numerator and denominator
\* values and nsos sections, section i built from B[3i..3i+2] and A[3i..3i+2];
\* get_length() returns 2*nsos, then and after any execute and clear calls.
C8_Constructed ==
    out.op = "create_sos" =>
        /\ out.nsos = 0 => (~out.ok /\ q.type = "NONE")
        /\ out.nsos >= 1 =>
              /\ out.ok
              /\ q.type = "SOS"
              /\ q.nsos = out.nsos
              /\ ReadArray(mem, q.b, 3 * out.nsos) = out.B
              /\ ReadArray(mem, q.a, 3 * out.nsos) = out.A
              /\ Len(q.qsos) = out.nsos
              /\ \A i \in 1..out.nsos :
                    q.qsos[i] = iirfiltsos_create(SubSeq(out.B, 3 * i - 2, 3 * i),
                                                  SubSeq(out.A, 3 * i - 2, 3 * i))
C8_Length ==
    /\ q.type = "SOS" => iirfilt_get_length(q) = 2 * Len(q.qsos)
    /\ (out.op = "get_length" /\ q.type = "SOS") => out.len = 2 * Len(q.qsos)
C9_NormSosAgree ==
    /\ out.op = "execute" => out.y = twin.y
    /\ mem[q.v] = twin.q.qsos[1].v[1]
    /\ mem[q.v + 1] = twin.q.qsos[1].v[2]

C9_Witness ==
    /\ out.op = "execute"
    /\ nexec = 3
    /\ out.y = twin.y
    /\ ~RIsZero(out.y)
    /\ ~RIsZero(mem[q.v + 1])
    /\ ~RIsZero(mem[q.v + 2])
    /\ mem[q.v] # mem[q.v + 1]

\* C10: frequency_response, group_delay, get_length and print leave the whole
\* object unchanged, execute leaves everything but the state unchanged, and so
\* the results of frequency_response(fc) and group_delay(fc) do not depend on
\* the execute and clear calls made before.
C10_QueriesFrame ==
    [][/\ out'.op \in {"freqresponse", "groupdelay", "get_length", "print"} =>
             (q' = q /\ mem' = mem)
       /\ out'.op = "execute" =>
             (CoefOf(q', mem') = CoefOf(q, mem) /\ ShapeOf(q') = ShapeOf(q))
       /\ out'.op \in {"execute", "clear"} =>
             \A k \in FreqQuarters :
                /\ iirfilt_freqresponse(q', mem', k) = iirfilt_freqresponse(q, mem, k)
                /\ iirfilt_groupdelay(q', mem', k) = iirfilt_groupdelay(q, mem, k)]_vars

\* C10 holds of every SOS-form object and every normal-form one with nb = na
C10_EqualLengths ==
    [][(q.type = "NORM" => q.nb = q.na) =>
       /\ out'.op \in {"freqresponse", "groupdelay", "get_length", "print"} =>
             (q' = q /\ mem' = mem)
       /\ out'.op = "execute" =>
             (CoefOf(q', mem') = CoefOf(q, mem) /\ ShapeOf(q') = ShapeOf(q))
       /\ out'.op \in {"execute", "clear"} =>
             \A k \in FreqQuarters :
                /\ iirfilt_freqresponse(q', mem', k) = iirfilt_freqresponse(q, mem, k)
                /\ iirfilt_groupdelay(q', mem', k) = iirfilt_groupdelay(q, mem, k)]_vars

\* the magnitude of a rational
RAbs(x) == <<Abs(x[1]), x[2]>>

\* the bound the output of the DC blocker has to fall below
DcEps == Rat(1, 8)

DcInRange(_alpha) == ~RLe(_alpha, R(0)) /\ RLe(_alpha, R(1))

\* the filter create_dc_blocker builds: b = [1, -1], a = [1, -(1 - alpha)]
C11_Built ==
    /\ q.type = "NORM" /\ q.nb = 2 /\ q.na = 2
    /\ NumOf(q, mem) = <<R(1), R(0 - 1)>>
    /\ DenOf(q, mem) = <<R(1), RNeg(RSub(R(1), twin.alpha))>>

\* with alpha in (0, 1], from the second sample on the output magnitude does
\* not increase
C11_NonIncreasing ==
    (DcInRange(twin.alpha) /\ out.op = "execute" /\ out'.op = "execute")
        => RLe(RAbs(out'.y), RAbs(out.y))

\* with alpha = 1 the output is exactly zero from the second sample on
C11_AlphaOne ==
    (twin.alpha = R(1) /\ nexec >= 2) => out.y = R(0)

\* with alpha in (0, 1] the output is below the bound at last
C11_Small ==
    DcInRange(twin.alpha) => (out.op = "execute" /\ RLe(RAbs(out.y), DcEps))

\* C11: create_dc_blocker(alpha) builds the filter b = [1, -1],
\* a = [1, -(1 - alpha)]; for alpha in (0, 1] and a constant input fed from the
\* cleared state the output magnitude never increases after the first sample,
\* eventually stays below the bound DcEps, and for alpha = 1 is exactly zero
\* from the second sample on.
C11_DcBlockerConverges ==
    /\ [](C11_Built /\ C11_AlphaOne)
    /\ [][C11_NonIncreasing]_vars
    /\ <>[]C11_Small

\* a blocker with alpha = 1/2 whose output has decayed below the bound without
\* reaching zero
C11_Witness ==
    /\ twin \in [alpha : {Rat(1, 2)}, c : XVals]
    /\ out.op = "execute"
    /\ nexec >= 4
    /\ out.y # R(0)
    /\ RLe(RAbs(out.y), DcEps)

\* the fields of the object create_sos sets
SetFields(qq) ==
    IF qq.type = "SOS" THEN WithUnset(qq, [v |-> 0, nb |-> 0, na |-> 0]) ELSE qq

Range(f) == {f[i] : i \in DOMAIN f}

\* whatever the unset fields v, nb, na hold, every call on an SOS-form object
\* returns the same and leaves the same object and the same arrays
C12_UnsetNeverUsed ==
    /\ out.res = twin.res
    /\ mem = twin.mem
    /\ SetFields(q) = SetFields(twin.q)

\* no state buffer is allocated for an SOS-form object
C12_NoBufferAllocated ==
    q.type = "SOS" => Block("v") \notin Range(q.blocks)

\* destroy frees exactly the blocks the constructor obtained, each once
C12_DestroyFrees ==
    out'.op = "destroy" =>
        /\ Range(out'.res) = Range(q.blocks)
        /\ Len(out'.res) = Cardinality(Range(q.blocks))
        /\ Len(q.blocks) = Cardinality(Range(q.blocks))

\* C12: no operation on an SOS-form object allocates, reads, writes or frees
\* the state buffer v or reads nb and na, which create_sos leaves unset; and
\* destroy, for either form, frees every block the constructor allocated
\* exactly once and nothing else.
C12_SosLeavesBufferAlone ==
    /\ [](C12_NoBufferAllocated /\ C12_UnsetNeverUsed)
    /\ [][C12_DestroyFrees]_vars

\* a two-section SOS-form object was destroyed: both sections were freed and
\* the state buffer was not
C12_Witness ==
    /\ out.op = "destroy"
    /\ SectionBlock(2) \in Range(out.res)
    /\ Block("v") \notin Range(out.res)

\* the stored coefficients are the inputs over a_in[0]
C13_Coefficients ==
    /\ \A i \in 1..q.nb : NumOf(q, mem)[i] = RDiv(twin.b[i], twin.a[1])
    /\ \A i \in 1..q.na : DenOf(q, mem)[i] = RDiv(twin.a[i], twin.a[1])

\* every one of the n state elements is zero
C13_BufferZero ==
    \A i \in 1..q.n : BufOf(q, mem)[i] = R(0)

\* C13: after create of the fixed-point backend stored b[i] = b_in[i]/a_in[0]
\* for i < nb and stored a[i] = a_in[i]/a_in[0] for i < na, and after create or
\* clear all n state elements v[0..n-1] are zero, as with the default backend.
C13_FixedMatchesDefault ==
    (q.type = "NORM" /\ out.op \in {"create", "clear"}) =>
        (C13_Coefficients /\ C13_BufferZero)

\* the accesses of the last call stay inside the blocks malloc was asked for
InBounds(qq, op) ==
    /\ AccessExtent(qq, op).b <= qq.bcap
    /\ AccessExtent(qq, op).a <= qq.acap
    /\ AccessExtent(qq, op).v <= qq.vcap

\* C14: for every nb >= 1 and na >= 1 every array access of create and of the
\* later execute, clear, freqresponse and groupdelay calls on the normal-form
\* object stays inside its allocation: b holds at least nb elements, a at least
\* na, and v holds max(nb, na).
C14_AccessesInBounds ==
    q.type = "NORM" =>
        /\ InBounds(q, out.op)
        /\ q.bcap >= q.nb
        /\ q.acap >= q.na
        /\ q.vcap = Max(q.nb, q.na)

\* with nb = na the accesses are in bounds
C14_EqualLengths ==
    (q.type = "NORM" /\ q.nb = q.na) =>
        /\ InBounds(q, out.op)
        /\ q.bcap >= q.nb
        /\ q.acap >= q.na
        /\ q.vcap = Max(q.nb, q.na)

====
